---- MODULE Spec2Model ----
(***************************************************************************)
(* Hospital Consignment Optimizer (src/app.py).                            *)
(*                                                                         *)
(* One run of the Streamlit script is modelled as a pipeline: the inputs   *)
(* (the uploaded table, the three filter widgets) are fixed by Init, the   *)
(* clock is read once, and every section of the script is one action.     *)
(*                                                                         *)
(* Conventions.                                                            *)
(*  - Time is counted in ticks; a day is TicksPerDay ticks, so that a      *)
(*    datetime can lie strictly between two midnights and ".dt.days"       *)
(*    really truncates.                                                    *)
(*  - A raw date cell is [valid, t]; pd.to_datetime(errors="coerce") maps  *)
(*    it to its tick or to NaT.  NaT compares False with everything.       *)
(*  - NaN is the missing value a left merge leaves in a numeric column.    *)
(*  - Activity_Quotient is the exact fraction [num, den] (den > 0).        *)
(*  - Labels are spelled as in the source, in ASCII: the coloured-square   *)
(*    prefix of the Expiry_Status labels is dropped and the en dash of     *)
(*    the removal label is written "-".                                    *)
(*  - Columns the script never reads after loading (the IDs, Usage_Family, *)
(*    Consignment_Start_Date) are not carried in the rows.                 *)
(*  - Movement_Qty of movement rows and Current_Stock of inventory rows    *)
(*    are numbers (no blank cells in those two columns).                   *)
(*  - AvgWeekly (line 147), the KPI row and the pivot (lines 190-227) are   *)
(*    computed from model_df and read by nothing else; they are left out.  *)
(*  - Product_Category is a function of Product_Name in the input tables.  *)
(***************************************************************************)
EXTENDS Integers, Sequences, FiniteSets, TLC

VARIABLES
    pc,               \* position in the script
    columns,          \* df.columns
    df,               \* the loaded table, a sequence of rows
    hospital_filter,  \* the three multiselect widgets
    category_filter,
    product_filter,
    error,            \* the columns named by st.error, <<>> when no error
    mov, inv,
    filtered_mov, filtered_inv,
    today,
    consumption_6m,   \* the three aggregate tables (sets of rows)
    start_dates,
    stats,
    model_df          \* the result table, a sequence of rows

vars == <<pc, columns, df, hospital_filter, category_filter, product_filter,
          error, mov, inv, filtered_mov, filtered_inv, today,
          consumption_6m, start_dates, stats, model_df>>

----------------------------------------------------------------------------
(* Bounds of the model *)

MaxMov == 2         \* movement rows in the table
MaxInv == 2         \* inventory rows in the table
MaxQty == 2         \* |Movement_Qty| <= MaxQty
MaxStock == 4       \* 0 <= Current_Stock <= MaxStock
TicksPerDay == 2

(* Program constants *)

SixMonthsDays == 180
EighteenMonthsDays == 540
ExpiringSoonDays == 30
Sentinel == 999
ThresholdA == 10
ThresholdB == 20
ThresholdC == 40

NaT == -1000000
NaN == -2000000
Unset == "<unset>"

timedelta(days) == days * TicksPerDay

\* The nominal instant of the run; the clock reads Now or one tick later.
Now == 600 * TicksPerDay + 1

required_cols ==
    << "Record_Type", "Hospital_ID", "Hospital_Name", "Product_ID", "Product_Name",
       "Product_Category", "Usage_Family", "Movement_Date", "Movement_Qty",
       "Current_Stock", "Expiry_Date", "Consignment_Start_Date" >>

Range(s) == { s[i] : i \in DOMAIN s }

----------------------------------------------------------------------------
(* Helpers over tables *)

Key(r) == << r.Hospital_Name, r.Product_Name >>

RECURSIVE SumQty(_)
SumQty(s) == IF s = << >> THEN 0 ELSE Head(s).Movement_Qty + SumQty(Tail(s))

MaxOf(S) == CHOOSE x \in S : \A y \in S : y <= x
MinOf(S) == CHOOSE x \in S : \A y \in S : x <= y

GroupKeys(tbl) == { Key(r) : r \in Range(tbl) }
GroupRows(tbl, k) == SelectSeq(tbl, LAMBDA r : Key(r) = k)

\* Comparisons of a parsed date with an instant: NaT is never >=, <, <=.
DateGE(d, t) == d # NaT /\ d >= t
DateLT(d, t) == d # NaT /\ d < t
DateLE(d, t) == d # NaT /\ d <= t

to_datetime(cell) == IF cell.valid THEN cell.t ELSE NaT

fillna(v, d) == IF v = NaN THEN d ELSE v

isin(v, sel) == v \in sel

\* Some enumeration of a finite set, used for the matches of one left row.
RECURSIVE SetToSeq(_)
SetToSeq(S) == IF S = {} THEN << >>
               ELSE LET x == CHOOSE y \in S : TRUE IN << x >> \o SetToSeq(S \ {x})

RECURSIVE Flatten(_)
Flatten(ss) == IF ss = << >> THEN << >> ELSE Head(ss) \o Flatten(Tail(ss))

\* Variant: an inner join: rows without a match are dropped.
C10_Mutant_merge(left, right, fields) ==
    Flatten([ i \in DOMAIN left |->
        LET ms == SetToSeq({ r \in right : Key(r) = Key(left[i]) })
        IN  [ j \in 1..Len(ms) |->
                [ f \in DOMAIN left[i] |->
                    IF f \in fields THEN ms[j][f] ELSE left[i][f] ] ] ])

\* DataFrame.merge(right, on=[Hospital_Name, Product_Name], how="left"):
\* every left row is paired with each right row of its key, in left order;
\* a left row without a match is kept once, the new columns being NaN.
merge(left, right, fields) ==
    Flatten([ i \in DOMAIN left |->
        LET m == { r \in right : Key(r) = Key(left[i]) }
            ms == SetToSeq(m)
        IN  IF m = {}
            THEN << [ f \in DOMAIN left[i] |->
                        IF f \in fields THEN NaN ELSE left[i][f] ] >>
            ELSE [ j \in 1..Len(ms) |->
                     [ f \in DOMAIN left[i] |->
                        IF f \in fields THEN ms[j][f] ELSE left[i][f] ] ] ])

----------------------------------------------------------------------------
(* The row-wise functions of the script *)

\* Variant: 0 instead of the sentinel for a key without movements.
C3_Mutant_Activity_Quotient(row) ==
    IF row.Number_of_Consumptions > 0
    THEN [num |-> row.Days_Active, den |-> row.Number_of_Consumptions]
    ELSE [num |-> 0, den |-> 1]

\* lines 149-153: Days_Active / Number_of_Consumptions, or the sentinel
Activity_Quotient(row) ==
    IF row.Number_of_Consumptions > 0
    THEN [num |-> row.Days_Active, den |-> row.Number_of_Consumptions]
    ELSE [num |-> Sentinel, den |-> 1]

\* q <= c for the fraction q
QuotientLE(q, c) == q.num <= c * q.den

\* Variant: thresholds excluded.
C9_Mutant_classify(q) ==
    IF q.num < ThresholdA * q.den THEN "A"
    ELSE IF q.num < ThresholdB * q.den THEN "B"
    ELSE IF q.num < ThresholdC * q.den THEN "C"
    ELSE "D"

classify(q) ==
    IF QuotientLE(q, ThresholdA) THEN "A"
    ELSE IF QuotientLE(q, ThresholdB) THEN "B"
    ELSE IF QuotientLE(q, ThresholdC) THEN "C"
    ELSE "D"

safety_map == [A |-> 3, B |-> 2, C |-> 1, D |-> 0]

Recommended(row) == row.Max_Consumption + row.SafetyStock

\* Variant: a date equal to the as-of time counts as expired.
C2_Mutant_expiry_flag(date, now) ==
    IF date = NaT THEN "OK"
    ELSE IF date <= now THEN "EXPIRED"
    ELSE IF date <= now + timedelta(ExpiringSoonDays) THEN "Expiring Soon"
    ELSE "OK"

\* Variant: the 30-day end of the window is excluded.
C7_Mutant_expiry_flag(date, now) ==
    IF date = NaT THEN "OK"
    ELSE IF date < now THEN "EXPIRED"
    ELSE IF date < now + timedelta(ExpiringSoonDays) THEN "Expiring Soon"
    ELSE "OK"

expiry_flag(date, now) ==
    IF date = NaT THEN "OK"
    ELSE IF date < now THEN "EXPIRED"
    ELSE IF date <= now + timedelta(ExpiringSoonDays) THEN "Expiring Soon"
    ELSE "OK"

\* Variant: the opposite sign convention.
C8_Mutant_Difference(row) == row.Recommended - row.Current_Stock

Difference(row) == row.Current_Stock - row.Recommended

\* Variant: no label for a zero Difference.
C5_Mutant_DifferenceAction(row) ==
    IF row.Difference > 0 THEN "Reduce"
    ELSE IF row.Difference < 0 THEN "Increase"
    ELSE row.Action

\* lines 235-239
DifferenceAction(row) ==
    IF row.Difference > 0 THEN "Reduce"
    ELSE IF row.Difference < 0 THEN "Increase"
    ELSE "OK"

\* Variant: the override yields to a Reduce / Increase label.
C1_Mutant_ExpiredAction(row, action) ==
    IF row.Expiry_Status = "EXPIRED" /\ action = "OK" THEN "REMOVE - Expired" ELSE action

\* line 241
ExpiredAction(row, action) ==
    IF row.Expiry_Status = "EXPIRED" THEN "REMOVE - Expired" ELSE action

----------------------------------------------------------------------------
(* The script, section by section *)

\* lines 45-53: all required columns present, or st.error and st.stop
Validation ==
    /\ pc = "validation"
    /\ IF \A i \in DOMAIN required_cols : required_cols[i] \in columns
       THEN /\ pc' = "convert_dates"
            /\ error' = error
       ELSE /\ error' = required_cols
            /\ pc' = "stopped"
    /\ UNCHANGED <<columns, df, hospital_filter, category_filter, product_filter,
                   mov, inv, filtered_mov, filtered_inv, today,
                   consumption_6m, start_dates, stats, model_df>>

\* lines 56-58
ConvertDates ==
    /\ pc = "convert_dates"
    /\ df' = [ i \in DOMAIN df |->
                [df[i] EXCEPT !.Movement_Date = to_datetime(@),
                              !.Expiry_Date = to_datetime(@)] ]
    /\ pc' = "separate"
    /\ UNCHANGED <<columns, hospital_filter, category_filter, product_filter,
                   error, mov, inv, filtered_mov, filtered_inv, today,
                   consumption_6m, start_dates, stats, model_df>>

\* lines 61-62
Separate ==
    /\ pc = "separate"
    /\ mov' = SelectSeq(df, LAMBDA r : r.Record_Type = "movement")
    /\ inv' = SelectSeq(df, LAMBDA r : r.Record_Type = "inventory")
    /\ pc' = "filters"
    /\ UNCHANGED <<columns, df, hospital_filter, category_filter, product_filter,
                   error, filtered_mov, filtered_inv, today,
                   consumption_6m, start_dates, stats, model_df>>

\* lines 76-89: an empty selection does not filter
ByHospital(tbl) ==
    IF hospital_filter # {}
    THEN SelectSeq(tbl, LAMBDA r : isin(r.Hospital_Name, hospital_filter))
    ELSE tbl

ByCategory(tbl) ==
    IF category_filter # {}
    THEN SelectSeq(tbl, LAMBDA r : isin(r.Product_Category, category_filter))
    ELSE tbl

ByProduct(tbl) ==
    IF product_filter # {}
    THEN SelectSeq(tbl, LAMBDA r : isin(r.Product_Name, product_filter))
    ELSE tbl

ApplyFilters ==
    /\ pc = "filters"
    /\ filtered_mov' = ByProduct(ByCategory(ByHospital(mov)))
    /\ filtered_inv' = ByProduct(ByCategory(ByHospital(inv)))
    /\ pc' = "clock"
    /\ UNCHANGED <<columns, df, hospital_filter, category_filter, product_filter,
                   error, mov, inv, today,
                   consumption_6m, start_dates, stats, model_df>>

\* lines 92-94: datetime.today()
Clock == { Now, Now + 1 }

six_months_ago == today - timedelta(SixMonthsDays)
eighteen_months_ago == today - timedelta(EighteenMonthsDays)

ReadClock ==
    /\ pc = "clock"
    /\ today' \in Clock
    /\ pc' = "step1"
    /\ UNCHANGED <<columns, df, hospital_filter, category_filter, product_filter,
                   error, mov, inv, filtered_mov, filtered_inv,
                   consumption_6m, start_dates, stats, model_df>>

\* line 99 and line 111
mov_6m == SelectSeq(filtered_mov, LAMBDA r : DateGE(r.Movement_Date, six_months_ago))
mov_18m == SelectSeq(filtered_mov, LAMBDA r : DateGE(r.Movement_Date, eighteen_months_ago))

\* lines 99-106
Step1 ==
    /\ pc = "step1"
    /\ consumption_6m' =
         { [Hospital_Name |-> k[1], Product_Name |-> k[2],
            Consumption_6M |-> SumQty(GroupRows(mov_6m, k))] : k \in GroupKeys(mov_6m) }
    /\ pc' = "step2"
    /\ UNCHANGED <<columns, df, hospital_filter, category_filter, product_filter,
                   error, mov, inv, filtered_mov, filtered_inv, today,
                   start_dates, stats, model_df>>

\* line 120: (today - Start_Date).dt.days, the whole days of the difference
Days_Active(start) == (today - start) \div TicksPerDay

\* lines 111-120
Step2 ==
    /\ pc = "step2"
    /\ start_dates' =
         { LET start == MinOf({ r.Movement_Date : r \in Range(GroupRows(mov_18m, k)) })
           IN  [Hospital_Name |-> k[1], Product_Name |-> k[2],
                Start_Date |-> start, Days_Active |-> Days_Active(start)]
           : k \in GroupKeys(mov_18m) }
    /\ pc' = "step3"
    /\ UNCHANGED <<columns, df, hospital_filter, category_filter, product_filter,
                   error, mov, inv, filtered_mov, filtered_inv, today,
                   consumption_6m, stats, model_df>>

\* lines 125-132
Step3 ==
    /\ pc = "step3"
    /\ stats' =
         { LET g == GroupRows(mov_18m, k)
           IN  [Hospital_Name |-> k[1], Product_Name |-> k[2],
                Number_of_Consumptions |-> Len(g),
                Max_Consumption |-> MaxOf({ r.Movement_Qty : r \in Range(g) })]
           : k \in GroupKeys(mov_18m) }
    /\ pc' = "step4"
    /\ UNCHANGED <<columns, df, hospital_filter, category_filter, product_filter,
                   error, mov, inv, filtered_mov, filtered_inv, today,
                   consumption_6m, start_dates, model_df>>

\* The columns the script adds to the inventory rows, before they are set.
NewColumns ==
    [Consumption_6M |-> NaN, Start_Date |-> NaT, Days_Active |-> NaN,
     Number_of_Consumptions |-> NaN, Max_Consumption |-> NaN,
     Activity_Quotient |-> [num |-> Sentinel, den |-> 1],
     Class |-> Unset, SafetyStock |-> NaN, Recommended |-> NaN,
     Expiry_Status |-> Unset, Difference |-> NaN, Action |-> Unset]

\* lines 137-145: the three left merges, then the fillna(0)
Joined ==
    LET m0 == [ i \in DOMAIN filtered_inv |-> filtered_inv[i] @@ NewColumns ]
        m1 == merge(m0, consumption_6m, {"Consumption_6M"})
        m2 == merge(m1, start_dates, {"Start_Date", "Days_Active"})
        m3 == merge(m2, stats, {"Number_of_Consumptions", "Max_Consumption"})
    IN  [ i \in DOMAIN m3 |->
            [m3[i] EXCEPT !.Number_of_Consumptions = fillna(@, 0),
                          !.Max_Consumption = fillna(@, 0),
                          !.Consumption_6M = fillna(@, 0)] ]

\* lines 149-164
Classified(tbl) ==
    [ i \in DOMAIN tbl |->
        LET q == Activity_Quotient(tbl[i])
            c == classify(q)
        IN  [tbl[i] EXCEPT !.Activity_Quotient = q, !.Class = c,
                           !.SafetyStock = safety_map[c]] ]

\* lines 137-164
Step4 ==
    /\ pc = "step4"
    /\ model_df' = Classified(Joined)
    /\ pc' = "step5"
    /\ UNCHANGED <<columns, df, hospital_filter, category_filter, product_filter,
                   error, mov, inv, filtered_mov, filtered_inv, today,
                   consumption_6m, start_dates, stats>>

\* line 169
Step5 ==
    /\ pc = "step5"
    /\ model_df' = [ i \in DOMAIN model_df |->
                      [model_df[i] EXCEPT !.Recommended = Recommended(model_df[i])] ]
    /\ pc' = "expiry_flags"
    /\ UNCHANGED <<columns, df, hospital_filter, category_filter, product_filter,
                   error, mov, inv, filtered_mov, filtered_inv, today,
                   consumption_6m, start_dates, stats>>

\* lines 174-185
ExpiryFlags ==
    /\ pc = "expiry_flags"
    /\ model_df' = [ i \in DOMAIN model_df |->
                      [model_df[i] EXCEPT
                          !.Expiry_Status = expiry_flag(model_df[i].Expiry_Date, today),
                          !.Difference = Difference(model_df[i])] ]
    /\ pc' = "recommendations"
    /\ UNCHANGED <<columns, df, hospital_filter, category_filter, product_filter,
                   error, mov, inv, filtered_mov, filtered_inv, today,
                   consumption_6m, start_dates, stats>>

\* lines 235-241
RecommendationsTab ==
    /\ pc = "recommendations"
    /\ model_df' = [ i \in DOMAIN model_df |->
                      [model_df[i] EXCEPT
                          !.Action = ExpiredAction(model_df[i],
                                                   DifferenceAction(model_df[i]))] ]
    /\ pc' = "done"
    /\ UNCHANGED <<columns, df, hospital_filter, category_filter, product_filter,
                   error, mov, inv, filtered_mov, filtered_inv, today,
                   consumption_6m, start_dates, stats>>

Next ==
    \/ Validation
    \/ ConvertDates
    \/ Separate
    \/ ApplyFilters
    \/ ReadClock
    \/ Step1
    \/ Step2
    \/ Step3
    \/ Step4
    \/ Step5
    \/ ExpiryFlags
    \/ RecommendationsTab

----------------------------------------------------------------------------
(* The inputs of a run *)

CategoryOf == [P1 |-> "Kits", P2 |-> "Reagents"]

Blank == [valid |-> FALSE, t |-> 0]
DateCell(offset) == [valid |-> TRUE, t |-> Now + offset]

MovementRow(k, date, qty) ==
    [Record_Type |-> "movement", Hospital_Name |-> k[1], Product_Name |-> k[2],
     Product_Category |-> CategoryOf[k[2]], Movement_Date |-> date,
     Movement_Qty |-> qty, Current_Stock |-> NaN, Expiry_Date |-> Blank]

InventoryRow(k, stock, expiry) ==
    [Record_Type |-> "inventory", Hospital_Name |-> k[1], Product_Name |-> k[2],
     Product_Category |-> CategoryOf[k[2]], Movement_Date |-> Blank,
     Movement_Qty |-> NaN, Current_Stock |-> stock, Expiry_Date |-> expiry]

\* The tables of at most max rows drawn from rows, up to the order of the rows.
Tables(rows, max) ==
    LET dom == SetToSeq(rows) IN
    UNION { { [ i \in 1..n |-> dom[f[i]] ] :
                f \in { g \in [1..n -> 1..Len(dom)] :
                          \A i \in 1..(n - 1) : g[i] <= g[i + 1] } } :
            n \in 0..max }

RequiredSet == Range(required_cols)

ColumnChoices ==
    { (RequiredSet \ m) \cup e :
        m \in SUBSET {"Expiry_Date", "Usage_Family"}, e \in {{}, {"Notes"}} }

\* A multiselect offers the values present in its column of df.
Offered(f, data) ==
    /\ f[1] \subseteq { r.Hospital_Name : r \in Range(data) }
    /\ f[2] \subseteq { r.Product_Category : r \in Range(data) }
    /\ f[3] \subseteq { r.Product_Name : r \in Range(data) }

InitWith(datasets, filters) ==
    /\ pc = "validation"
    /\ df \in datasets
    /\ columns \in (IF Len(df) <= 1 THEN ColumnChoices ELSE {RequiredSet})
    /\ \E f \in filters :
          /\ Offered(f, df)
          /\ hospital_filter = f[1]
          /\ category_filter = f[2]
          /\ product_filter = f[3]
    /\ error = << >>
    /\ mov = << >>
    /\ inv = << >>
    /\ filtered_mov = << >>
    /\ filtered_inv = << >>
    /\ today = Now
    /\ consumption_6m = {}
    /\ start_dates = {}
    /\ stats = {}
    /\ model_df = << >>

\* Expiry dates around the as-of instant and around 30 days after it.
ExpiryCells ==
    { DateCell(o) : o \in { -1, 0, 1, timedelta(ExpiringSoonDays),
                            timedelta(ExpiringSoonDays) + 1 } } \cup { Blank }

ExpiryInventory ==
    Tables({ InventoryRow(k, s, e) :
               k \in { <<"H1", "P1">>, <<"H2", "P2">> },
               s \in { 0, MaxStock }, e \in ExpiryCells }, MaxInv)

ExpiryMovements ==
    { << >>, << MovementRow(<<"H1", "P1">>, DateCell(-timedelta(ThresholdA)), MaxQty) >> }

ExpiryFilters ==
    { << {}, {}, {} >>, << {"H1"}, {}, {} >>, << {}, {"Kits"}, {"P1"} >> }

Init ==
    InitWith({ m \o i : m \in ExpiryMovements, i \in ExpiryInventory }, ExpiryFilters)

Spec == Init /\ [][Next]_vars

\* Movement dates around the two window starts.
WindowCells ==
    { DateCell(o) : o \in { -timedelta(EighteenMonthsDays) - 1,
                            -timedelta(EighteenMonthsDays),
                            -timedelta(SixMonthsDays) - 1,
                            -timedelta(SixMonthsDays),
                            -timedelta(ThresholdA) } } \cup { Blank }

WindowMovements ==
    Tables({ MovementRow(k, d, q) :
               k \in { <<"H1", "P1">>, <<"H2", "P1">> },
               d \in WindowCells, q \in { -MaxQty, MaxQty } }, MaxMov)

WindowInventory ==
    { << InventoryRow(<<"H1", "P1">>, 0, Blank) >>,
      << InventoryRow(<<"H2", "P1">>, MaxStock, Blank),
         InventoryRow(<<"H1", "P1">>, 0, DateCell(-1)),
         InventoryRow(<<"H1", "P2">>, 0, Blank) >> }

WindowFilters == { << {}, {}, {} >>, << {"H1"}, {}, {} >> }

InitWindow ==
    InitWith({ m \o i : m \in WindowMovements, i \in WindowInventory }, WindowFilters)

SpecWindow == InitWindow /\ [][Next]_vars

\* Movement dates around the class thresholds, for one and for two movements.
ClassCells ==
    { DateCell(o) : o \in { -timedelta(EighteenMonthsDays) - 1,
                            -timedelta(ThresholdC + 1), -timedelta(ThresholdC),
                            -timedelta(ThresholdB + 1), -timedelta(ThresholdB),
                            -timedelta(ThresholdA + 1) + 1, -timedelta(ThresholdA),
                            timedelta(1) } }

ClassMovements ==
    Tables({ MovementRow(k, d, 1) :
               k \in { <<"H1", "P1">>, <<"H2", "P1">> }, d \in ClassCells }, MaxMov)

ClassInventory ==
    { << InventoryRow(<<"H1", "P1">>, s, e) >> :
        s \in { 0, MaxStock }, e \in { Blank, DateCell(-1) } }
    \cup { << InventoryRow(<<"H1", "P1">>, 0, Blank),
              InventoryRow(<<"H2", "P1">>, 0, Blank) >> }

InitClass ==
    InitWith({ m \o i : m \in ClassMovements, i \in ClassInventory }, WindowFilters)

SpecClass == InitClass /\ [][Next]_vars

----------------------------------------------------------------------------
(* What the properties are stated over *)

Flagged == pc \in {"recommendations", "done"}
Targeted == pc \in {"expiry_flags", "recommendations", "done"}
Classed == pc \in {"step5", "expiry_flags", "recommendations", "done"}
Resolved == pc = "done"

Rows == DOMAIN model_df

PassesFilters(r) ==
    /\ hospital_filter = {} \/ r.Hospital_Name \in hospital_filter
    /\ category_filter = {} \/ r.Product_Category \in category_filter
    /\ product_filter = {} \/ r.Product_Name \in product_filter

\* The movements of key k in the loaded table dated within the last `days` days.
MovementsIn(k, days) ==
    { i \in DOMAIN df :
        /\ df[i].Record_Type = "movement"
        /\ Key(df[i]) = k
        /\ df[i].Movement_Date # NaT
        /\ df[i].Movement_Date >= today - days * TicksPerDay }

RECURSIVE QtyOver(_)
QtyOver(S) ==
    IF S = {} THEN 0
    ELSE LET i == CHOOSE j \in S : TRUE IN df[i].Movement_Qty + QtyOver(S \ {i})

InventoryPassing ==
    SelectSeq(df, LAMBDA r : r.Record_Type = "inventory" /\ PassesFilters(r))

----------------------------------------------------------------------------
(* C1 *)

C2_SuffixAsStated ==
    Resolved =>
        \A i \in Rows :
            model_df[i].Expiry_Status = "Expiring Soon" =>
                /\ model_df[i].Difference > 0 =>
                        model_df[i].Action = "Reduce (Expiring Soon)"
                /\ model_df[i].Difference < 0 =>
                        model_df[i].Action = "Increase (Expiring Soon)"

\* C2, amended: a row is Expiring Soon exactly when as-of <= Expiry_Date <=
\* as-of + 30 days, and its action carries no suffix: "Reduce" when
\* Difference > 0, "Increase" when Difference < 0.
C2_ExpiringSoonPlainAction ==
    Resolved =>
        \A i \in Rows :
            /\ model_df[i].Expiry_Status = "Expiring Soon" <=>
                    /\ DateGE(model_df[i].Expiry_Date, today)
                    /\ DateLE(model_df[i].Expiry_Date, today + ExpiringSoonDays * TicksPerDay)
            /\ model_df[i].Expiry_Status = "Expiring Soon" =>
                    /\ model_df[i].Difference > 0 => model_df[i].Action = "Reduce"
                    /\ model_df[i].Difference < 0 => model_df[i].Action = "Increase"

C2_Witness ==
    /\ Resolved
    /\ \E i \in Rows : /\ model_df[i].Expiry_Status = "Expiring Soon"
                        /\ model_df[i].Difference > 0
                        /\ model_df[i].Action = "Reduce"
    /\ \E i \in Rows : /\ model_df[i].Expiry_Status = "Expiring Soon"
                        /\ model_df[i].Difference < 0
                        /\ model_df[i].Action = "Increase"

(* C5 *)

C7_ExpiryStatus ==
    Flagged =>
        \A i \in Rows :
            LET d == model_df[i].Expiry_Date
                st == model_df[i].Expiry_Status
                soon == today + ExpiringSoonDays * TicksPerDay
            IN  /\ st \in { "OK", "EXPIRED", "Expiring Soon" }
                /\ d = NaT => st = "OK"
                /\ (d # NaT /\ d < today) => st = "EXPIRED"
                /\ (d # NaT /\ today <= d /\ d <= soon) => st = "Expiring Soon"
                /\ (d # NaT /\ d > soon) => st = "OK"

C7_Witness ==
    /\ Flagged
    /\ \E i \in Rows : /\ model_df[i].Expiry_Date = today + ExpiringSoonDays * TicksPerDay
                        /\ model_df[i].Expiry_Status = "Expiring Soon"
    /\ \E i \in Rows : model_df[i].Expiry_Date = NaT /\ model_df[i].Expiry_Status = "OK"

(* C8 *)

\* C8: Difference = Current_Stock - Recommended on every row, and a row that
\* is not EXPIRED has Reduce when Difference > 0, Increase when Difference < 0
\* and OK when Difference = 0.
C8_DifferenceSign ==
    Resolved =>
        \A i \in Rows :
            LET r == model_df[i] IN
            /\ r.Difference = r.Current_Stock - r.Recommended
            /\ r.Expiry_Status # "EXPIRED" =>
                  /\ r.Current_Stock > r.Recommended => r.Action = "Reduce"
                  /\ r.Current_Stock < r.Recommended => r.Action = "Increase"
                  /\ r.Current_Stock = r.Recommended => r.Action = "OK"

C8_Witness ==
    /\ Resolved
    /\ \E i \in Rows : /\ model_df[i].Expiry_Status # "EXPIRED"
                        /\ model_df[i].Difference > 0
    /\ \E i \in Rows : /\ model_df[i].Expiry_Status # "EXPIRED"
                        /\ model_df[i].Difference < 0

(* C3 *)

\* C3: an inventory row whose key has no movement dated within the 540-day
\* lookback has Class D, SafetyStock 0 and Recommended 0; if its Current_Stock
\* is 0 and it is not EXPIRED, its Difference is 0 and its Action is OK.
C3_NoMovementLowestClass ==
    Resolved =>
        \A i \in Rows :
            LET r == model_df[i] IN
            MovementsIn(Key(r), EighteenMonthsDays) = {} =>
                /\ r.Class = "D"
                /\ r.SafetyStock = 0
                /\ r.Recommended = 0
                /\ (r.Current_Stock = 0 /\ r.Expiry_Status # "EXPIRED") =>
                        (r.Difference = 0 /\ r.Action = "OK")

\* a key whose only movements are older than the lookback
C3_Witness ==
    /\ Resolved
    /\ \E i \in Rows :
          /\ MovementsIn(Key(model_df[i]), EighteenMonthsDays) = {}
          /\ \E j \in DOMAIN df : df[j].Record_Type = "movement" /\ Key(df[j]) = Key(model_df[i])
          /\ model_df[i].Current_Stock = 0
          /\ model_df[i].Expiry_Status # "EXPIRED"
          /\ model_df[i].Action = "OK"

(* C9 *)

\* the class a quotient of days / count belongs to
C9_ClassOf(days, count) ==
    IF days <= 10 * count THEN "A"
    ELSE IF days <= 20 * count THEN "B"
    ELSE IF days <= 40 * count THEN "C"
    ELSE "D"

C9_SafetyOf(class) ==
    IF class = "A" THEN 3 ELSE IF class = "B" THEN 2 ELSE IF class = "C" THEN 1 ELSE 0

\* C9: for a key with movements in the 540-day lookback the class follows
\* DaysActive / MovementCount (A up to 10, B up to 20, C up to 40, else D),
\* DaysActive being the whole days from the earliest in-window movement to the
\* as-of time, with SafetyStock 3, 2, 1, 0; without such movements the
\* quotient is the sentinel and the class is D.
C9_QuotientClass ==
    Classed =>
        \A i \in Rows :
            LET r == model_df[i]
                w == MovementsIn(Key(r), EighteenMonthsDays)
                count == Cardinality(w)
                first == MinOf({ df[j].Movement_Date : j \in w })
                days == CHOOSE d \in -2..(EighteenMonthsDays + 1) :
                            /\ d * TicksPerDay <= today - first
                            /\ today - first < (d + 1) * TicksPerDay
            IN  /\ r.Number_of_Consumptions = count
                /\ count > 0 =>
                      /\ r.Activity_Quotient.num * count = days * r.Activity_Quotient.den
                      /\ r.Class = C9_ClassOf(days, count)
                /\ count = 0 =>
                      /\ r.Activity_Quotient = [num |-> 999, den |-> 1]
                      /\ r.Class = "D"
                /\ r.SafetyStock = C9_SafetyOf(r.Class)

\* a quotient exactly on a threshold with several movements, beside a key
\* without movements in the lookback
C9_Witness ==
    /\ Classed
    /\ \E i \in Rows : /\ model_df[i].Number_of_Consumptions > 1
                        /\ model_df[i].Days_Active = 10 * model_df[i].Number_of_Consumptions
                        /\ model_df[i].Class = "A"
                        /\ model_df[i].SafetyStock = 3
    /\ \E i \in Rows : /\ model_df[i].Number_of_Consumptions = 0
                        /\ model_df[i].Class = "D"

(* C10 *)

\* C10: the joined result has exactly one row for every inventory row that
\* passes the filters, in order, carrying the aggregates of its own key:
\* Consumption_6M the sum of Movement_Qty over the key's movements of the last
\* 180 days, Number_of_Consumptions and Max_Consumption the count and the
\* maximum over those of the last 540 days, each 0 when there is none.
C10_JoinedAggregates ==
    Classed =>
        /\ Len(model_df) = Len(InventoryPassing)
        /\ \A i \in Rows :
              LET r == model_df[i]
                  w6 == MovementsIn(Key(r), SixMonthsDays)
                  w18 == MovementsIn(Key(r), EighteenMonthsDays)
              IN  /\ Key(r) = Key(InventoryPassing[i])
                  /\ r.Current_Stock = InventoryPassing[i].Current_Stock
                  /\ r.Consumption_6M = QtyOver(w6)
                  /\ r.Number_of_Consumptions = Cardinality(w18)
                  /\ r.Max_Consumption =
                        IF w18 = {} THEN 0
                        ELSE MaxOf({ df[j].Movement_Qty : j \in w18 })

\* one run with a key without movements and a key with movements in the
\* 540-day window only
C10_Witness ==
    /\ Classed
    /\ \E i \in Rows : /\ model_df[i].Number_of_Consumptions = 0
                        /\ model_df[i].Max_Consumption = 0
                        /\ model_df[i].Consumption_6M = 0
    /\ \E i \in Rows : /\ model_df[i].Number_of_Consumptions = MaxMov
                        /\ MovementsIn(Key(model_df[i]), SixMonthsDays) = {}
                        /\ model_df[i].Consumption_6M = 0

(* C4 *)

\* C4: Recommended is never negative, whatever the movements and the class.
C4_RecommendedNonNegative ==
    Targeted => \A i \in Rows : model_df[i].Recommended >= 0

(* C6 *)

\* C6: when required columns are absent the run stops before anything is
\* parsed or computed, and the error names exactly the missing columns.
C6_ErrorNamesMissingColumns ==
    pc = "stopped" =>
        /\ Range(error) = RequiredSet \ columns
        /\ mov = << >> /\ inv = << >> /\ model_df = << >>
        /\ \A i \in DOMAIN df : df[i].Expiry_Date \in { Blank } \cup ExpiryCells

====
